---------------------------- MODULE Spec2Model ----------------------------
(***************************************************************************)
(* A model of the exprcalc expression calculator (parser.go): the lexer    *)
(* given by the regular expression of myLexer, the grammar given by the    *)
(* struct tags of Expression .. Value, and the tree-walking evaluator      *)
(* (Expression.Eval .. Value.Eval, castToInternal, castToExternal,         *)
(* evaluateBooleans) behind the API functions Eval, Parse and EvalParsed.  *)
(*                                                                         *)
(* Texts are sequences of one-character strings.  A source position is     *)
(* the 1-based column of a token (all texts are one line).                 *)
(***************************************************************************)
EXTENDS Integers, Sequences, FiniteSets, TLC

VARIABLES
    op,       \* the API function called last: "init", "Eval", "Parse", "EvalParsed"
    expr,     \* the text handed to the last Eval or Parse
    obj,      \* the Gettable handed to the last Eval or EvalParsed (NilObj: none)
    parsed,   \* what the last Parse returned: [e |-> *Expression or Nil, err |-> error]
    ret,      \* what the last Eval or EvalParsed returned: [value, err]
    input,    \* how the text of this behaviour was put together
    trace,    \* the nodes evaluated and the GetByName calls made by that call, in order
    threads,  \* concurrent evaluation: each goroutine's context, frame stack and log
    shared    \* concurrent evaluation: the *Expression all goroutines evaluate

vars == <<op, expr, input, obj, parsed, ret, trace, threads, shared>>

-----------------------------------------------------------------------------
(* Characters *)

Lower == <<"a","b","c","d","e","f","g","h","i","j","k","l","m",
           "n","o","p","q","r","s","t","u","v","w","x","y","z">>
Upper == <<"A","B","C","D","E","F","G","H","I","J","K","L","M",
           "N","O","P","Q","R","S","T","U","V","W","X","Y","Z">>
Digits == <<"0","1","2","3","4","5","6","7","8","9">>

\* The characters of the model in the order of their byte values: Go compares
\* strings byte by byte.
Ascii == <<" ", "!", "\"", "&", "'", "(", ")", "+", "-", ".">> \o Digits
         \o <<"<", "=", ">">> \o Upper \o <<"_">> \o Lower \o <<"|">>

Range(s) == {s[i] : i \in DOMAIN s}
IndexOf(s, c) == CHOOSE i \in DOMAIN s : s[i] = c

IsSpace(c) == c = " "
IsDigit(c) == c \in Range(Digits)
IsLetter(c) == c \in Range(Lower) \cup Range(Upper)
IsIdentStart(c) == IsLetter(c) \/ c = "_"
IsIdentPart(c) == IsLetter(c) \/ IsDigit(c) \/ c = "_"

\* strings.ToLower, one character
ToLowerChar(c) == IF c \in Range(Upper) THEN Lower[IndexOf(Upper, c)] ELSE c
\* strings.ToLower
ToLower(s) == [i \in DOMAIN s |-> ToLowerChar(s[i])]
\* strings.EqualFold
EqualFold(s, t) == ToLower(s) = ToLower(t)

Ord(c) == IndexOf(Ascii, c)
DigitVal(c) == IndexOf(Digits, c) - 1

Sub(b, i, n) == SubSeq(b, i, i + n - 1)
\* whether b holds, from position i on, the word w in any letter case: (?i)w
HasFold(b, i, w) == i + Len(w) - 1 <= Len(b) /\ EqualFold(Sub(b, i, Len(w)), w)
\* whether b holds, from position i on, exactly w
Has(b, i, w) == i + Len(w) - 1 <= Len(b) /\ Sub(b, i, Len(w)) = w

-----------------------------------------------------------------------------
(* The lexer: myLexer, one regular expression whose alternatives are tried  *)
(* in the order written (Go's regexp is leftmost-first), each greedily.     *)

\* the length of the longest run of characters of b from position i on that
\* satisfy P
RunLen(b, i, P(_)) ==
    CHOOSE k \in 0..(Len(b) + 1 - i) :
        /\ \A j \in i..(i + k - 1) : P(b[j])
        /\ (i + k > Len(b) \/ ~P(b[i + k]))

At(b, i) == IF i \in DOMAIN b THEN b[i] ELSE ""

\* (\s+)
MatchSpace(b, i) == RunLen(b, i, IsSpace)
\* (?P<LogicOp>(?i)AND|OR)
MatchLogicOp(b, i) ==
    IF HasFold(b, i, <<"A","N","D">>) THEN 3
    ELSE IF HasFold(b, i, <<"O","R">>) THEN 2 ELSE 0
\* (?P<Boolean>(?i)true|false)
MatchBoolean(b, i) ==
    IF HasFold(b, i, <<"t","r","u","e">>) THEN 4
    ELSE IF HasFold(b, i, <<"f","a","l","s","e">>) THEN 5 ELSE 0
\* (?P<Ident>[a-zA-Z_][a-zA-Z0-9_]*)
MatchIdent(b, i) ==
    IF IsIdentStart(At(b, i)) THEN 1 + RunLen(b, i + 1, IsIdentPart) ELSE 0
\* [-+]?\d*\.?\d+ : the sign, then either digits "." digits or digits alone
MatchMantissa(b, i) ==
    LET s == IF At(b, i) \in {"-", "+"} THEN 1 ELSE 0
        a == RunLen(b, i + s, IsDigit)
        f == IF At(b, i + s + a) = "." THEN RunLen(b, i + s + a + 1, IsDigit) ELSE 0
    IN  IF f >= 1 THEN s + a + 1 + f
        ELSE IF a >= 1 THEN s + a ELSE 0
\* ([eE][-+]?\d+)?
MatchExponent(b, i) ==
    LET s == IF At(b, i + 1) \in {"-", "+"} THEN 1 ELSE 0
        d == RunLen(b, i + 1 + s, IsDigit)
    IN  IF At(b, i) \in {"e", "E"} /\ d >= 1 THEN 1 + s + d ELSE 0
\* (?P<Number>[-+]?\d*\.?\d+([eE][-+]?\d+)?)
MatchNumber(b, i) ==
    LET m == MatchMantissa(b, i)
    IN  IF m = 0 THEN 0 ELSE m + MatchExponent(b, i + m)
\* (?P<String>'[^']*'|"[^"]*")
MatchString(b, i) ==
    LET q == At(b, i)
        NotQuote(c) == c # q
        n == RunLen(b, i + 1, NotQuote)
    IN  IF q \in {"'", "\""} /\ At(b, i + 1 + n) = q THEN n + 2 ELSE 0
\* (?P<CompareOp>!=|<=|>=|==|[()<>])
MatchCompareOp(b, i) ==
    IF \E w \in {<<"!","=">>, <<"<","=">>, <<">","=">>, <<"=","=">>} : Has(b, i, w)
    THEN 2
    ELSE IF At(b, i) \in {"(", ")", "<", ">"} THEN 1 ELSE 0

\* The first alternative of the regular expression that matches at position
\* i, as [Type, n]; Type "" is the unnamed group (\s+), n = 0 is no match.
MatchAt(b, i) ==
    IF MatchSpace(b, i) > 0 THEN [Type |-> "", n |-> MatchSpace(b, i)]
    ELSE IF MatchLogicOp(b, i) > 0 THEN [Type |-> "LogicOp", n |-> MatchLogicOp(b, i)]
    ELSE IF MatchBoolean(b, i) > 0 THEN [Type |-> "Boolean", n |-> MatchBoolean(b, i)]
    ELSE IF MatchIdent(b, i) > 0 THEN [Type |-> "Ident", n |-> MatchIdent(b, i)]
    ELSE IF MatchNumber(b, i) > 0 THEN [Type |-> "Number", n |-> MatchNumber(b, i)]
    ELSE IF MatchString(b, i) > 0 THEN [Type |-> "String", n |-> MatchString(b, i)]
    ELSE [Type |-> "CompareOp", n |-> MatchCompareOp(b, i)]

\* participle.Unquote("String"): a String token loses its quotes (the texts
\* of the model hold no backslash)
Unquote(tok) ==
    IF tok.Type = "String"
    THEN [tok EXCEPT !.Value = SubSeq(tok.Value, 2, Len(tok.Value) - 1)]
    ELSE tok

\* The tokens of b from position i on, after toks: [ok, toks, pos]; a
\* position where no alternative matches is an error at that position.
RECURSIVE LexFrom(_, _, _)
LexFrom(b, i, toks) ==
    IF i > Len(b) THEN [ok |-> TRUE, toks |-> toks, pos |-> i]
    ELSE LET m == MatchAt(b, i)
         IN  IF m.n = 0 THEN [ok |-> FALSE, toks |-> toks, pos |-> i]
             ELSE IF m.Type = "" THEN LexFrom(b, i + m.n, toks)
             ELSE LexFrom(b, i + m.n,
                      Append(toks, Unquote([Type |-> m.Type,
                                            Value |-> Sub(b, i, m.n),
                                            Pos |-> i])))

Lex(b) == LexFrom(b, 1, <<>>)

-----------------------------------------------------------------------------
(* Values.  A Go value is a record tagged with its dynamic type T: the      *)
(* evaluator's own are float64, string and Boolean (the named type of       *)
(* parser.go), a Gettable may return any other.  A float64 is held as the   *)
(* decimal m * 10^e with m not divisible by 10.                             *)

Nil == [T |-> "nil"]

RECURSIVE Normalize(_, _)
Normalize(m, e) ==
    IF m = 0 THEN [m |-> 0, e |-> 0]
    ELSE IF m % 10 = 0 THEN Normalize(m \div 10, e + 1)
    ELSE [m |-> m, e |-> e]

RECURSIVE Pow10(_)
Pow10(n) == IF n <= 0 THEN 1 ELSE 10 * Pow10(n - 1)

Min(a, b) == IF a <= b THEN a ELSE b

\* the order of float64 values: lhs < rhs
NumLess(x, y) ==
    LET e0 == Min(x.e, y.e)
    IN  x.m * Pow10(x.e - e0) < y.m * Pow10(y.e - e0)

\* the order of Go strings: lhs < rhs, byte by byte
RECURSIVE StrLess(_, _)
StrLess(a, b) ==
    IF b = <<>> THEN FALSE
    ELSE IF a = <<>> THEN TRUE
    ELSE IF Head(a) = Head(b) THEN StrLess(Tail(a), Tail(b))
    ELSE Ord(Head(a)) < Ord(Head(b))

Float64(m, e) == [T |-> "float64", f |-> Normalize(m, e)]
String(s) == [T |-> "string", s |-> s]
Boolean(b) == [T |-> "Boolean", b |-> b]
Bool(b) == [T |-> "bool", b |-> b]

\* the value of a run of decimal digits
RECURSIVE DecVal(_)
DecVal(s) ==
    IF s = <<>> THEN 0
    ELSE 10 * DecVal(SubSeq(s, 1, Len(s) - 1)) + DigitVal(s[Len(s)])

\* strconv.ParseFloat on the text of a Number token, by which participle
\* fills a *float64 field
ParseFloat(s) ==
    LET sg == IF At(s, 1) \in {"-", "+"} THEN 1 ELSE 0
        a  == RunLen(s, 1 + sg, IsDigit)
        dot == IF At(s, 1 + sg + a) = "." THEN 1 ELSE 0
        f  == IF dot = 1 THEN RunLen(s, 2 + sg + a, IsDigit) ELSE 0
        x  == 1 + sg + a + dot + f              \* where the exponent starts
        xs == IF At(s, x + 1) \in {"-", "+"} THEN 1 ELSE 0
        xv == IF x <= Len(s) THEN DecVal(SubSeq(s, x + 1 + xs, Len(s))) ELSE 0
        m  == DecVal(Sub(s, 1 + sg, a) \o Sub(s, 2 + sg + a, f))
    IN  Float64(IF At(s, 1) = "-" THEN 0 - m ELSE m,
                (IF At(s, x + 1) = "-" THEN 0 - xv ELSE xv) - f)

-----------------------------------------------------------------------------
(* The grammar: the struct tags of Expression, OrCondition,                 *)
(* ConditionOperand, Compare, Term and Value, parsed as participle parses   *)
(* them.  A parse function gives [ok, node, next]: the node built and the   *)
(* index of the first token not consumed, or ok = FALSE and in next the     *)
(* index of the token it stopped at.  A node's Pos is the position of the   *)
(* first token of the node.  A nil pointer field is Nil.                    *)

CompareOperators == {<<"<","=">>, <<">","=">>, <<"=","=">>, <<"<">>, <<">">>, <<"!","=">>}

\* a literal of the grammar matches a token by its value, in any letter case
\* for the token types of participle.CaseInsensitive("LogicOp", "Boolean")
Literal(toks, i, w) ==
    /\ i \in DOMAIN toks
    /\ IF toks[i].Type \in {"LogicOp", "Boolean"}
       THEN EqualFold(toks[i].Value, w)
       ELSE toks[i].Value = w

TokenIs(toks, i, type) == i \in DOMAIN toks /\ toks[i].Type = type

\* the position of token i, or of the end of the input
PosOf(toks, i, eof) == IF i \in DOMAIN toks THEN toks[i].Pos ELSE eof

Fail(i) == [ok |-> FALSE, node |-> Nil, next |-> i]
Built(node, next) == [ok |-> TRUE, node |-> node, next |-> next]

\* Boolean.Capture
Capture(values) == ToLower(values[1]) = <<"t","r","u","e">>

\* A *string: the string and the address it is allocated at, which depends
\* on nothing in the text but where the parser put it.
NewString(s, pos) == [addr |-> 49152 + 16 * pos, s |-> s]

Value(pos, number, string, boolean) ==
    [T |-> "Value", Pos |-> pos, Number |-> number, String |-> string,
     Boolean |-> boolean]

\* Value: ( @Number | @String | @Boolean ), token i being one of them
ParseValue(toks, i) ==
    IF TokenIs(toks, i, "Number")
    THEN Built(Value(toks[i].Pos, ParseFloat(toks[i].Value), Nil, Nil), i + 1)
    ELSE IF TokenIs(toks, i, "String")
    THEN Built(Value(toks[i].Pos, Nil, String(toks[i].Value), Nil), i + 1)
    ELSE Built(Value(toks[i].Pos, Nil, Nil, Boolean(Capture(<<toks[i].Value>>))), i + 1)

RECURSIVE ParseExpression(_, _, _)
RECURSIVE ParseOrTail(_, _, _, _)
RECURSIVE ParseOrCondition(_, _, _)
RECURSIVE ParseAndTail(_, _, _, _)
RECURSIVE ParseConditionOperand(_, _, _)
RECURSIVE ParseCompare(_, _, _)
RECURSIVE ParseTerm(_, _, _)

Term(pos, value, identifier, subExpression) ==
    [T |-> "Term", Pos |-> pos, Value |-> value, Identifier |-> identifier,
     SubExpression |-> subExpression]

\* Term: "(" @@ ")", after the "(" at pos and the Expression sub
CloseSubExpression(toks, pos, sub) ==
    IF ~sub.ok THEN Fail(sub.next)
    ELSE IF ~Literal(toks, sub.next, <<")">>) THEN Fail(sub.next)
    ELSE Built(Term(pos, Nil, Nil, sub.node), sub.next + 1)

\* Term: @@ | @Ident | "(" @@ ")"
ParseTerm(toks, i, eof) ==
    IF i \notin DOMAIN toks THEN Fail(i)
    ELSE IF toks[i].Type \in {"Number", "String", "Boolean"}
    THEN Built(Term(toks[i].Pos, ParseValue(toks, i).node, Nil, Nil), i + 1)
    ELSE IF TokenIs(toks, i, "Ident")
    THEN Built(Term(toks[i].Pos, Nil, NewString(toks[i].Value, toks[i].Pos), Nil), i + 1)
    ELSE IF Literal(toks, i, <<"(">>)
    THEN CloseSubExpression(toks, toks[i].Pos, ParseExpression(toks, i + 1, eof))
    ELSE Fail(i)

\* Compare, after its operator (token i) and the Term t
CompareOf(toks, i, t) ==
    IF ~t.ok THEN Fail(t.next)
    ELSE Built([T |-> "Compare", Pos |-> toks[i].Pos,
                Operator |-> toks[i].Value, Term |-> t.node], t.next)

\* Compare: @( "<=" | ">=" | "==" | "<" | ">" | "!=" ) ( @@ ); ok with node
\* Nil when no operator is there (the Compare of a ConditionOperand is
\* optional)
ParseCompare(toks, i, eof) ==
    IF ~\E w \in CompareOperators : Literal(toks, i, w)
    THEN Built(Nil, i)
    ELSE CompareOf(toks, i, ParseTerm(toks, i + 1, eof))

\* ConditionOperand, after the Term t and the optional Compare c
ConditionOperandOf(t, c) ==
    IF ~c.ok THEN Fail(c.next)
    ELSE Built([T |-> "ConditionOperand", Pos |-> t.node.Pos,
                Term |-> t.node, Compare |-> c.node], c.next)

\* ConditionOperand, after the Term t
ConditionOperandAfter(toks, eof, t) ==
    IF ~t.ok THEN Fail(t.next)
    ELSE ConditionOperandOf(t, ParseCompare(toks, t.next, eof))

\* ConditionOperand: @@ [ @@ ]
ParseConditionOperand(toks, i, eof) ==
    ConditionOperandAfter(toks, eof, ParseTerm(toks, i, eof))

\* { "AND" @@ }, after one more ConditionOperand c
AndTailAfter(toks, eof, and, c) ==
    IF ~c.ok THEN Fail(c.next)
    ELSE ParseAndTail(toks, c.next, eof, Append(and, c.node))

\* { "AND" @@ }
ParseAndTail(toks, i, eof, and) ==
    IF ~Literal(toks, i, <<"A","N","D">>)
    THEN Built(and, i)
    ELSE AndTailAfter(toks, eof, and, ParseConditionOperand(toks, i + 1, eof))

\* OrCondition, after all its ConditionOperands
OrConditionOf(tail) ==
    IF ~tail.ok THEN Fail(tail.next)
    ELSE Built([T |-> "OrCondition", Pos |-> tail.node[1].Pos, And |-> tail.node],
               tail.next)

\* OrCondition, after its first ConditionOperand c
OrConditionAfter(toks, eof, c) ==
    IF ~c.ok THEN Fail(c.next)
    ELSE OrConditionOf(ParseAndTail(toks, c.next, eof, <<c.node>>))

\* OrCondition: @@ { "AND" @@ }
ParseOrCondition(toks, i, eof) ==
    OrConditionAfter(toks, eof, ParseConditionOperand(toks, i, eof))

\* { "OR" @@ }, after one more OrCondition o
OrTailAfter(toks, eof, or, o) ==
    IF ~o.ok THEN Fail(o.next)
    ELSE ParseOrTail(toks, o.next, eof, Append(or, o.node))

\* { "OR" @@ }
ParseOrTail(toks, i, eof, or) ==
    IF ~Literal(toks, i, <<"O","R">>)
    THEN Built(or, i)
    ELSE OrTailAfter(toks, eof, or, ParseOrCondition(toks, i + 1, eof))

\* Expression, after all its OrConditions
ExpressionOf(tail) ==
    IF ~tail.ok THEN Fail(tail.next)
    ELSE Built([T |-> "Expression", Pos |-> tail.node[1].Pos, Or |-> tail.node],
               tail.next)

\* Expression, after its first OrCondition o
ExpressionAfter(toks, eof, o) ==
    IF ~o.ok THEN Fail(o.next)
    ELSE ExpressionOf(ParseOrTail(toks, o.next, eof, <<o.node>>))

\* Expression: @@ { "OR" @@ }
ParseExpression(toks, i, eof) ==
    ExpressionAfter(toks, eof, ParseOrCondition(toks, i, eof))

-----------------------------------------------------------------------------
(* Errors.  A *lexer.Error holds a position and a message; Error() of it    *)
(* writes the position before the message.  A message is a sequence of      *)
(* pieces of text.                                                          *)

\* lexer.Errorf(pos, format, args...)
Errorf(pos, msg) == [T |-> "*lexer.Error", Pos |-> pos, Msg |-> msg]
\* fmt.Errorf(format, args...)
FmtErrorf(msg) == [T |-> "*errors.errorString", Msg |-> msg]
\* err.Error(), what the verb %v writes of an error
ErrorString(err) ==
    IF err.T = "*lexer.Error" THEN <<ToString(err.Pos), ": ">> \o err.Msg
    ELSE err.Msg
\* what the verb %v writes of a *string: the address, not the string
FormatPointer(p) == <<"0x", ToString(p.addr)>>

\* Parser.ParseString, after the parse p of the tokens: nothing may follow
\* the Expression
ParsedOf(toks, eof, p) ==
    IF ~p.ok
    THEN [e |-> Nil, err |-> Errorf(PosOf(toks, p.next, eof), <<"unexpected token">>)]
    ELSE IF p.next <= Len(toks)
    THEN [e |-> Nil, err |-> Errorf(toks[p.next].Pos, <<"unexpected token">>)]
    ELSE [e |-> p.node, err |-> Nil]

\* Parser.ParseString, after the lexer's result lx
ParseTokens(eof, lx) ==
    IF ~lx.ok
    THEN [e |-> Nil, err |-> Errorf(lx.pos, <<"invalid token">>)]
    ELSE ParsedOf(lx.toks, eof, ParseExpression(lx.toks, 1, eof))

\* Parser.ParseString(expr, e): the text is cut in tokens, and the tokens
\* must make one Expression
ParseString(text) == ParseTokens(Len(text) + 1, Lex(text))

\* func Parse(expr string) (*Expression, error)
Parse(text) == ParseString(text)

-----------------------------------------------------------------------------
(* Gettable objects.  The evaluator knows an object only by GetByName;      *)
(* the model has the testPerson of parser_test.go and a second              *)
(* implementation that answers the same names with values of other Go       *)
(* types.  GetByName gives [value, err].                                    *)

gender  == <<"g","e","n","d","e","r">>
age     == <<"a","g","e">>
married == <<"m","a","r","r","i","e","d">>

testPerson(g, a, m) == [T |-> "*testPerson", gender |-> g, age |-> a, married |-> m]

\* another Gettable: a named Boolean, a float32, a nil value and, for every
\* other name, a value of a type the evaluator does not know
otherGettable == [T |-> "*otherGettable"]

GetByName(o, name) ==
    IF o.T = "*testPerson"
    THEN IF name = gender THEN [value |-> String(o.gender), err |-> Nil]
         ELSE IF name = age THEN [value |-> [T |-> "int", i |-> o.age], err |-> Nil]
         ELSE IF name = married THEN [value |-> Bool(o.married), err |-> Nil]
         ELSE [value |-> Nil, err |-> FmtErrorf(<<"Invalid identifier">>)]
    ELSE IF name = gender THEN [value |-> Nil, err |-> Nil]
         ELSE IF name = age THEN [value |-> [T |-> "float32", f |-> Normalize(5, -1)], err |-> Nil]
         ELSE IF name = married THEN [value |-> Boolean(FALSE), err |-> Nil]
         ELSE [value |-> [T |-> "struct {}"], err |-> Nil]

-----------------------------------------------------------------------------
(* The evaluator.  An Eval gives [value, err, log]; log is the log it was   *)
(* given followed by the nodes it evaluated and the GetByName calls it      *)
(* made, in order.                                                          *)

Event(ev, pos, name) == [ev |-> ev, Pos |-> pos, name |-> name]
R(value, err, log) == [value |-> value, err |-> err, log |-> log]

IntTypes == {"int", "int8", "int16", "int32", "int64",
             "uint", "uint8", "uint16", "uint32", "uint64"}

\* func castToInternal(value interface{}) interface{}
castToInternal(value) ==
    IF value.T = "bool" THEN Boolean(value.b)
    ELSE IF value.T \in IntTypes THEN Float64(value.i, 0)
    ELSE IF value.T = "float32" THEN [T |-> "float64", f |-> value.f]
    ELSE value

\* func castToExternal(value interface{}) interface{}
castToExternal(value) ==
    IF value.T = "Boolean" THEN Bool(value.b) ELSE value

\* func (v *Value) Eval(ctx *Context) (interface{}, error)
ValueEval(v, ctx, log) ==
    IF v.Number # Nil THEN R(v.Number, Nil, log)
    ELSE IF v.String # Nil THEN R(v.String, Nil, log)
    ELSE R(v.Boolean, Nil, log)

\* the switch on c.Operator for two values of one type, of which eq says
\* whether lhs == rhs, lt whether lhs < rhs and gt whether lhs > rhs; Nil for
\* an operator that is none of the six
CompareBy(operator, eq, lt, gt) ==
    IF operator = <<"=","=">> THEN Boolean(eq)
    ELSE IF operator = <<"!","=">> THEN Boolean(~eq)
    ELSE IF operator = <<"<">> THEN Boolean(lt)
    ELSE IF operator = <<">">> THEN Boolean(gt)
    ELSE IF operator = <<"<","=">> THEN Boolean(~gt)
    ELSE IF operator = <<">","=">> THEN Boolean(~lt)
    ELSE Nil

RECURSIVE ExpressionEval(_, _, _)
RECURSIVE ExpressionLoop(_, _, _, _, _)
RECURSIVE OrConditionEval(_, _, _)
RECURSIVE OrConditionLoop(_, _, _, _, _)
RECURSIVE ConditionOperandEval(_, _, _)
RECURSIVE CompareEval(_, _, _, _)
RECURSIVE TermEval(_, _, _)
RECURSIVE evaluateBooleans(_, _, _, _)

\* Term.Eval, an Identifier, after ctx.Object.GetByName(*t.Identifier) gave got
IdentifierGot(t, got, log) ==
    IF got.err # Nil THEN R(Nil, Errorf(t.Pos, ErrorString(got.err)), log)
    ELSE R(castToInternal(got.value), Nil, log)

\* Term.Eval, case t.Identifier != nil, were a nil object no error: the
\* identifier has no value
IdentifierEvalNilObjectNoValue(t, ctx, log) ==
    IF ctx.Object = Nil THEN R(Nil, Nil, log)
    ELSE IdentifierGot(t, GetByName(ctx.Object, t.Identifier.s),
                       Append(log, Event("GetByName", t.Pos, t.Identifier.s)))

\* Term.Eval, case t.Identifier != nil
IdentifierEval(t, ctx, log) ==
    IF ctx.Object = Nil
    THEN R(Nil, Errorf(t.Pos, <<"Identifier ">> \o FormatPointer(t.Identifier)
                                  \o <<" on nil object">>), log)
    ELSE IdentifierGot(t, GetByName(ctx.Object, t.Identifier.s),
                       Append(log, Event("GetByName", t.Pos, t.Identifier.s)))

\* func (t *Term) Eval(ctx *Context) (interface{}, error)
TermEval(t, ctx, log) ==
    IF t.Value # Nil THEN ValueEval(t.Value, ctx, Append(log, Event("Term", t.Pos, <<>>)))
    ELSE IF t.Identifier # Nil
    THEN IdentifierEval(t, ctx, Append(log, Event("Term", t.Pos, <<>>)))
    ELSE ExpressionEval(t.SubExpression, ctx, Append(log, Event("Term", t.Pos, <<>>)))

\* Compare.Eval: return nil, lexer.Errorf(c.Pos, ...)
CompareError(c, msg, log) == R(Nil, Errorf(c.Pos, msg), log)

\* Compare.Eval, the switch on c.Operator of two numbers or two strings; v
\* is the comparison's result, Nil in the default case
CompareResult(c, v, what, log) ==
    IF v # Nil THEN R(v, Nil, log)
    ELSE CompareError(c, <<"unsupported ", what, " comparison operator ">> \o c.Operator, log)

\* Compare.Eval, case Boolean, were booleans ordered, false before true
CompareBooleansOrdered(c, lhs, rhs, log) ==
    CompareResult(c, CompareBy(c.Operator, lhs.b = rhs.b, ~lhs.b /\ rhs.b, lhs.b /\ ~rhs.b),
                  "boolean", log)

\* Compare.Eval, case Boolean: the switch on c.Operator
CompareBooleans(c, lhs, rhs, log) ==
    IF c.Operator = <<"=","=">> THEN R(Boolean(lhs.b = rhs.b), Nil, log)
    ELSE IF c.Operator = <<"!","=">> THEN R(Boolean(lhs.b # rhs.b), Nil, log)
    ELSE CompareError(c, <<"unsupported boolean comparison operator ">> \o c.Operator, log)

\* Compare.Eval, the switch on the type of lhs
CompareValues(c, lhs, rhs, log) ==
    IF lhs.T = "float64"
    THEN IF rhs.T # "float64"
         THEN CompareError(c, <<"rhs of ">> \o c.Operator \o <<" must be a number">>, log)
         ELSE CompareResult(c, CompareBy(c.Operator, lhs.f = rhs.f, NumLess(lhs.f, rhs.f),
                                      NumLess(rhs.f, lhs.f)), "number", log)
    ELSE IF lhs.T = "string"
    THEN IF rhs.T # "string"
         THEN CompareError(c, <<"rhs of ">> \o c.Operator \o <<" must be a string">>, log)
         ELSE CompareResult(c, CompareBy(c.Operator, lhs.s = rhs.s, StrLess(lhs.s, rhs.s),
                                      StrLess(rhs.s, lhs.s)), "string", log)
    ELSE IF lhs.T = "Boolean"
    THEN IF rhs.T # "Boolean"
         THEN CompareError(c, <<"rhs of ">> \o c.Operator \o <<" must be boolean">>, log)
         ELSE CompareBooleans(c, lhs, rhs, log)
    ELSE CompareError(c, <<"lhs of ">> \o c.Operator
                          \o <<" must be a number, string or boolean">>, log)

\* Compare.Eval, after rhs, err := c.Term.Eval(ctx) gave r
CompareAfter(c, lhs, r) ==
    IF r.err # Nil THEN R(Nil, r.err, r.log)
    ELSE CompareValues(c, lhs, r.value, r.log)

\* func (c *Compare) Eval(ctx *Context, lhs interface{}) (interface{}, error)
CompareEval(c, ctx, lhs, log) ==
    CompareAfter(c, lhs, TermEval(c.Term, ctx, Append(log, Event("Compare", c.Pos, <<>>))))

\* ConditionOperand.Eval, after res, err := c.Compare.Eval(ctx, lhs) gave res
ConditionOperandResult(res) ==
    IF res.err # Nil THEN R(Nil, res.err, res.log) ELSE res

\* ConditionOperand.Eval, after lhs, err := c.Term.Eval(ctx) gave lhs
ConditionOperandAfterTerm(c, ctx, lhs) ==
    IF lhs.err # Nil THEN R(Nil, lhs.err, lhs.log)
    ELSE IF c.Compare = Nil THEN R(lhs.value, Nil, lhs.log)
    ELSE ConditionOperandResult(CompareEval(c.Compare, ctx, lhs.value, lhs.log))

\* func (c *ConditionOperand) Eval(ctx *Context) (interface{}, error)
ConditionOperandEval(c, ctx, log) ==
    ConditionOperandAfterTerm(c, ctx,
        TermEval(c.Term, ctx, Append(log, Event("ConditionOperand", c.Pos, <<>>))))

\* evaluateBooleans, after rhs, err := rhsExpr.Eval(ctx) gave r:
\* [lhsBool, rhsBool, err, log]
checkBooleans(lhs, r) ==
    IF r.err # Nil
    THEN [lhsBool |-> FALSE, rhsBool |-> FALSE, err |-> r.err, log |-> r.log]
    ELSE IF lhs.T # "Boolean"
    THEN [lhsBool |-> FALSE, rhsBool |-> FALSE,
          err |-> FmtErrorf(<<"lhs must be boolean">>), log |-> r.log]
    ELSE IF r.value.T # "Boolean"
    THEN [lhsBool |-> FALSE, rhsBool |-> FALSE,
          err |-> FmtErrorf(<<"rhs must be boolean">>), log |-> r.log]
    ELSE [lhsBool |-> lhs.b, rhsBool |-> r.value.b, err |-> Nil, log |-> r.log]

\* func evaluateBooleans(ctx *Context, lhs interface{}, rhsExpr Evaluable)
\*     (Boolean, Boolean, error)
evaluateBooleans(ctx, lhs, rhsExpr, log) ==
    checkBooleans(lhs, IF rhsExpr.T = "OrCondition"
                       THEN OrConditionEval(rhsExpr, ctx, log)
                       ELSE ConditionOperandEval(rhsExpr, ctx, log))

\* Expression.Eval, the body of the loop over e.Or[1:], after
\* evaluateBooleans(ctx, lhs, or) gave b
ExpressionStep(e, ctx, i, lhs, b) ==
    IF b.err # Nil THEN R(Nil, Errorf(e.Pos, ErrorString(b.err)), b.log)
    ELSE IF b.lhsBool THEN R(lhs, Nil, b.log)
    ELSE ExpressionLoop(e, ctx, i + 1, Boolean(b.lhsBool \/ b.rhsBool), b.log)

\* Expression.Eval, the loop over e.Or[1:], were it left as soon as lhs is
\* true, before the next element is evaluated
ExpressionLoopStopsAtTrue(e, ctx, i, lhs, log) ==
    IF i > Len(e.Or) \/ (lhs.T = "Boolean" /\ lhs.b) THEN R(lhs, Nil, log)
    ELSE ExpressionStep(e, ctx, i, lhs, evaluateBooleans(ctx, lhs, e.Or[i], log))

\* Expression.Eval, the loop over e.Or[1:] from the i-th element on
ExpressionLoop(e, ctx, i, lhs, log) ==
    IF i > Len(e.Or) THEN R(lhs, Nil, log)
    ELSE ExpressionStep(e, ctx, i, lhs, evaluateBooleans(ctx, lhs, e.Or[i], log))

\* Expression.Eval, after the first element, without the case of two
\* elements
ExpressionAfterFirstNoShortCircuit(e, ctx, lhs) ==
    IF lhs.err # Nil THEN R(Nil, lhs.err, lhs.log)
    ELSE IF Len(e.Or) = 1 THEN lhs
    ELSE ExpressionLoop(e, ctx, 2, lhs.value, lhs.log)

\* Expression.Eval, after lhs, err := e.Or[0].Eval(ctx) gave lhs
ExpressionAfterFirst(e, ctx, lhs) ==
    IF lhs.err # Nil THEN R(Nil, lhs.err, lhs.log)
    ELSE IF Len(e.Or) = 1 THEN lhs
    ELSE IF Len(e.Or) = 2 /\ lhs.value.T = "Boolean" /\ lhs.value.b THEN lhs
    ELSE ExpressionLoop(e, ctx, 2, lhs.value, lhs.log)

\* func (e *Expression) Eval(ctx *Context) (interface{}, error)
ExpressionEval(e, ctx, log) ==
    IF Len(e.Or) = 0 THEN R(Nil, Nil, log)
    ELSE ExpressionAfterFirst(e, ctx, OrConditionEval(e.Or[1], ctx, log))

\* OrCondition.Eval, the body of the loop, were lhs = lhsBool || rhsBool
OrConditionStepOr(o, ctx, i, lhs, b) ==
    IF b.err # Nil THEN R(Nil, Errorf(o.Pos, ErrorString(b.err)), b.log)
    ELSE IF ~b.lhsBool THEN R(lhs, Nil, b.log)
    ELSE OrConditionLoop(o, ctx, i + 1, Boolean(b.lhsBool \/ b.rhsBool), b.log)

\* OrCondition.Eval, the body of the loop over o.And[1:], after
\* evaluateBooleans(ctx, lhs, and) gave b
OrConditionStep(o, ctx, i, lhs, b) ==
    IF b.err # Nil THEN R(Nil, Errorf(o.Pos, ErrorString(b.err)), b.log)
    ELSE IF ~b.lhsBool THEN R(lhs, Nil, b.log)
    ELSE OrConditionLoop(o, ctx, i + 1, Boolean(b.lhsBool /\ b.rhsBool), b.log)

\* OrCondition.Eval, the loop over o.And[1:] from the i-th element on
OrConditionLoop(o, ctx, i, lhs, log) ==
    IF i > Len(o.And) THEN R(lhs, Nil, log)
    ELSE OrConditionStep(o, ctx, i, lhs, evaluateBooleans(ctx, lhs, o.And[i], log))

\* OrCondition.Eval, after lhs, err := o.And[0].Eval(ctx) gave lhs
OrConditionAfterFirst(o, ctx, lhs) ==
    IF lhs.err # Nil THEN R(Nil, lhs.err, lhs.log)
    ELSE IF Len(o.And) = 1 THEN lhs
    ELSE IF Len(o.And) = 2 /\ lhs.value.T = "Boolean" /\ ~lhs.value.b THEN lhs
    ELSE OrConditionLoop(o, ctx, 2, lhs.value, lhs.log)

\* func (o *OrCondition) Eval(ctx *Context) (interface{}, error)
OrConditionEval(o, ctx, log) ==
    IF Len(o.And) = 0 THEN R(Nil, Nil, Append(log, Event("OrCondition", o.Pos, <<>>)))
    ELSE OrConditionAfterFirst(o, ctx,
             ConditionOperandEval(o.And[1], ctx,
                                  Append(log, Event("OrCondition", o.Pos, <<>>))))

\* &Context{obj}
Context(o) == [Object |-> o]

\* EvalParsed, after value, err := expr.Eval(ctx) gave v
External(v) ==
    IF v.err # Nil THEN R(Nil, v.err, v.log)
    ELSE R(castToExternal(v.value), Nil, v.log)

\* func EvalParsed(expr *Expression, obj Gettable) (interface{}, error)
EvalParsed(e, o) == External(ExpressionEval(e, Context(o), <<>>))

\* Eval, after e, err := Parse(expr) gave p
EvalAfterParse(p, o) ==
    IF p.err # Nil THEN R(Nil, p.err, <<>>)
    ELSE EvalParsed(p.e, o)

\* func Eval(expr string, obj Gettable) (interface{}, error)
Eval(text, o) ==
    IF Len(text) = 0 THEN R(Nil, Nil, <<>>)
    ELSE EvalAfterParse(Parse(text), o)

-----------------------------------------------------------------------------
(* The texts evaluated.  Three families: chains of operands joined by AND   *)
(* and OR, single comparisons of two terms, and texts glued from pieces     *)
(* with nothing between them (keywords, names, and text that does not lex   *)
(* or parse).                                                               *)

MaxOperands == 3
MaxChunks == 3

\* true, false, h, (married OR 1>2)
Operands == <<
    <<"t","r","u","e">>,
    <<"f","a","l","s","e">>,
    <<"h">>,
    <<"(","m","a","r","r","i","e","d"," ","O","R"," ","1",">","2",")">> >>

\* 1, 2, 1.0, -1, 'a', 'b', "a", '', true, FALSE, married, age, gender, h
Leaves == <<
    <<"1">>,
    <<"2">>,
    <<"1",".","0">>,
    <<"-","1">>,
    <<"'","a","'">>,
    <<"'","b","'">>,
    <<"\"","a","\"">>,
    <<"'","'">>,
    <<"t","r","u","e">>,
    <<"F","A","L","S","E">>,
    <<"m","a","r","r","i","e","d">>,
    <<"a","g","e">>,
    <<"g","e","n","d","e","r">>,
    <<"h">> >>

\* a, or, true, 1, a space, (, |
Chunks == <<
    <<"a">>,
    <<"o","r">>,
    <<"t","r","u","e">>,
    <<"1">>,
    <<" ">>,
    <<"(">>,
    <<"|">> >>

Connectives == {<<" ","O","R"," ">>, <<" ","A","N","D"," ">>}

ChainInputs ==
    UNION {[family : {"chain"}, operands : [1..n -> DOMAIN Operands],
            conns : [1..(n - 1) -> Connectives]] : n \in 1..MaxOperands}
CompareInputs ==
    [family : {"compare"}, lhs : DOMAIN Leaves, operator : CompareOperators,
     rhs : DOMAIN Leaves]
ChunkInputs ==
    UNION {[family : {"chunks"}, chunks : [1..n -> DOMAIN Chunks]] : n \in 0..MaxChunks}

Inputs == ChainInputs \cup CompareInputs \cup ChunkInputs

RECURSIVE ChainText(_, _)
ChainText(in, n) ==
    IF n = 1 THEN Operands[in.operands[1]]
    ELSE ChainText(in, n - 1) \o in.conns[n - 1] \o Operands[in.operands[n]]

RECURSIVE ChunkText(_, _)
ChunkText(in, n) ==
    IF n = 0 THEN <<>> ELSE ChunkText(in, n - 1) \o Chunks[in.chunks[n]]

TextOf(in) ==
    IF in.family = "chain" THEN ChainText(in, Len(in.operands))
    ELSE IF in.family = "compare"
    THEN Leaves[in.lhs] \o <<" ">> \o in.operator \o <<" ">> \o Leaves[in.rhs]
    ELSE ChunkText(in, Len(in.chunks))

Objects == {Nil, testPerson(<<"m","a","l","e">>, 22, TRUE), otherGettable}

-----------------------------------------------------------------------------
(* The calls.  A behaviour takes one text and either evaluates it with      *)
(* Eval, or parses it with Parse and then evaluates the parsed tree with    *)
(* EvalParsed any number of times, each time with any object.               *)

NotParsed == [e |-> Nil, err |-> Nil]
NoResult == [value |-> Nil, err |-> Nil]

Init ==
    /\ input \in Inputs
    /\ expr = TextOf(input)
    /\ op = "init"
    /\ obj = Nil
    /\ parsed = NotParsed
    /\ ret = NoResult
    /\ trace = <<>>
    /\ threads = <<>>
    /\ shared = Nil

\* the call returns r
Returned(r) ==
    /\ ret' = [value |-> r.value, err |-> r.err]
    /\ trace' = r.log

\* value, err := Eval(expr, o)
CallEval ==
    \E o \in Objects :
        /\ op = "init"
        /\ op' = "Eval"
        /\ obj' = o
        /\ Returned(Eval(expr, o))
        /\ UNCHANGED <<expr, input, parsed, threads, shared>>

\* parsed, err := Parse(expr)
CallParse ==
    /\ op = "init"
    /\ op' = "Parse"
    /\ parsed' = Parse(expr)
    /\ UNCHANGED <<expr, input, obj, ret, trace, threads, shared>>

\* value, err = EvalParsed(parsed, o)
CallEvalParsed ==
    \E o \in Objects :
        /\ op \in {"Parse", "EvalParsed"}
        /\ parsed.err = Nil
        /\ op' = "EvalParsed"
        /\ obj' = o
        /\ Returned(EvalParsed(parsed.e, o))
        /\ UNCHANGED <<expr, input, parsed, threads, shared>>

Next == CallEval \/ CallParse \/ CallEvalParsed

Spec == Init /\ [][Next]_vars

-----------------------------------------------------------------------------
(* Concurrent evaluation.  Several goroutines call EvalParsed on one parsed *)
(* tree, each with an object of its own.  A goroutine's evaluation is the   *)
(* evaluator above taken one node at a time: it is either about to evaluate *)
(* the node at a path of the shared tree (mode "call"), or returning the    *)
(* result r of a node to the frame on top of its stack (mode "ret").  A     *)
(* frame is the rest of an Eval method after a call it made, with that      *)
(* method's locals.  A step gives the goroutine after it and the tree       *)
(* after it.                                                                *)

Goroutines == {"g1", "g2"}

\* the node of tree that path leads to: what a pointer into the tree reads
RECURSIVE NodeAt(_, _)
NodeAt(tree, path) ==
    IF path = <<>> THEN tree ELSE NodeAt(tree[Head(path)], Tail(path))

Idle == [mode |-> "idle", obj |-> Nil, node |-> <<>>, r |-> NoResult,
         stack |-> <<>>, log |-> <<>>]

Stepped(t, tree) == [thread |-> t, tree |-> tree]
CallNode(t, path) == [t EXCEPT !.mode = "call", !.node = path]
Push(t, frame) == [t EXCEPT !.stack = <<frame>> \o t.stack]
Pop(t) == [t EXCEPT !.stack = Tail(t.stack)]
Logged(t, ev, pos) == [t EXCEPT !.log = Append(t.log, Event(ev, pos, <<>>))]
\* return res, an [value, err, log] of the evaluator above
Return(t, res) ==
    [t EXCEPT !.mode = "ret", !.r = [value |-> res.value, err |-> res.err],
              !.log = res.log]
\* what was returned to the frame on top, as the evaluator above has it
Got(t) == R(t.r.value, t.r.err, t.log)

\* an Expression is the list e.Or, which true ends; an OrCondition is the
\* list o.And, which false ends
ListField(n) == IF n.T = "Expression" THEN "Or" ELSE "And"
ListStop(n) == n.T = "Expression"

\* Expression.Eval and OrCondition.Eval, the for loop at its i-th element:
\* the call of evaluateBooleans, which evaluates the element first
LoopAt(t, path, n, i, lhs) ==
    IF i > Len(n[ListField(n)]) THEN Return(t, R(lhs, Nil, t.log))
    ELSE CallNode(Push(t, [k |-> "Step", node |-> path, i |-> i, lhs |-> lhs]),
                  path \o <<ListField(n), i>>)

\* Expression.Eval and OrCondition.Eval, after the first element returned
StepAfterFirst(t, path, n) ==
    IF t.r.err # Nil THEN Return(t, R(Nil, t.r.err, t.log))
    ELSE IF Len(n[ListField(n)]) = 1 THEN Return(t, Got(t))
    ELSE IF /\ Len(n[ListField(n)]) = 2
            /\ t.r.value.T = "Boolean"
            /\ t.r.value.b = ListStop(n)
    THEN Return(t, Got(t))
    ELSE LoopAt(t, path, n, 2, t.r.value)

\* Expression.Eval and OrCondition.Eval, the body of the for loop after
\* evaluateBooleans returned b
StepLoop(t, path, n, i, lhs, b) ==
    IF b.err # Nil THEN Return(t, R(Nil, Errorf(n.Pos, ErrorString(b.err)), t.log))
    ELSE IF b.lhsBool = ListStop(n) THEN Return(t, R(lhs, Nil, t.log))
    ELSE LoopAt(t, path, n, i + 1,
                IF ListStop(n) THEN Boolean(b.lhsBool \/ b.rhsBool)
                ELSE Boolean(b.lhsBool /\ b.rhsBool))

\* ConditionOperand.Eval, after c.Term.Eval returned
StepAfterTerm(t, path, c) ==
    IF t.r.err # Nil THEN Return(t, R(Nil, t.r.err, t.log))
    ELSE IF c.Compare = Nil THEN Return(t, Got(t))
    ELSE CallNode(Push(Logged(t, "Compare", c.Compare.Pos),
                       [k |-> "CompareAfter", node |-> path \o <<"Compare">>,
                        i |-> 0, lhs |-> t.r.value]),
                  path \o <<"Compare", "Term">>)

\* a goroutine returns to the frame on top of its stack, or, with no frame
\* left, to EvalParsed, which returns
StepRet(t, tree) ==
    LET f == Head(t.stack)
        n == NodeAt(tree, f.node)
    IN  IF t.stack = <<>>
        THEN Stepped([Return(t, External(Got(t))) EXCEPT !.mode = "done"], tree)
        ELSE IF f.k = "AfterFirst" THEN Stepped(StepAfterFirst(Pop(t), f.node, n), tree)
        ELSE IF f.k = "Step"
        THEN Stepped(StepLoop(Pop(t), f.node, n, f.i, f.lhs, checkBooleans(f.lhs, Got(t))),
                     tree)
        ELSE IF f.k = "AfterTerm" THEN Stepped(StepAfterTerm(Pop(t), f.node, n), tree)
        ELSE Stepped(Return(Pop(t), ConditionOperandResult(CompareAfter(n, f.lhs, Got(t)))),
                     tree)

\* tree with node in place of the node that path leads to
RECURSIVE SetAt(_, _, _)
SetAt(tree, path, node) ==
    IF path = <<>> THEN node
    ELSE [tree EXCEPT ![Head(path)] = SetAt(tree[Head(path)], Tail(path), node)]

\* Term.Eval, were the Boolean an identifier resolved to kept in the tree,
\* the Term becoming the literal
StepTermMemoizing(t, tree, path, n) ==
    LET res == IdentifierEval(n, Context(t.obj), t.log)
    IN  IF n.Value # Nil
        THEN Stepped(Return(t, ValueEval(n.Value, Context(t.obj), t.log)), tree)
        ELSE IF n.Identifier # Nil
        THEN Stepped(Return(t, res),
                     IF res.err = Nil /\ res.value.T = "Boolean"
                     THEN SetAt(tree, path,
                                Term(n.Pos, Value(n.Pos, Nil, Nil, res.value), Nil, Nil))
                     ELSE tree)
        ELSE Stepped(CallNode(t, path \o <<"SubExpression">>), tree)

\* Term.Eval of the Term n at path
StepTerm(t, tree, path, n) ==
    IF n.Value # Nil
    THEN Stepped(Return(t, ValueEval(n.Value, Context(t.obj), t.log)), tree)
    ELSE IF n.Identifier # Nil
    THEN Stepped(Return(t, IdentifierEval(n, Context(t.obj), t.log)), tree)
    ELSE Stepped(CallNode(t, path \o <<"SubExpression">>), tree)

\* a goroutine enters the Eval method of the node at t.node
StepCall(t, tree) ==
    LET n == NodeAt(tree, t.node)
        list == [k |-> "AfterFirst", node |-> t.node, i |-> 0, lhs |-> Nil]
    IN  IF n.T = "Expression"
        THEN IF Len(n.Or) = 0 THEN Stepped(Return(t, R(Nil, Nil, t.log)), tree)
             ELSE Stepped(CallNode(Push(t, list), t.node \o <<"Or", 1>>), tree)
        ELSE IF n.T = "OrCondition"
        THEN IF Len(n.And) = 0
             THEN Stepped(Return(Logged(t, "OrCondition", n.Pos), R(Nil, Nil, t.log)), tree)
             ELSE Stepped(CallNode(Push(Logged(t, "OrCondition", n.Pos), list),
                                   t.node \o <<"And", 1>>), tree)
        ELSE IF n.T = "ConditionOperand"
        THEN Stepped(CallNode(Push(Logged(t, "ConditionOperand", n.Pos),
                                   [list EXCEPT !.k = "AfterTerm"]),
                              t.node \o <<"Term">>), tree)
        ELSE StepTerm(Logged(t, "Term", n.Pos), tree, t.node, n)

StepThread(t, tree) ==
    IF t.mode = "call" THEN StepCall(t, tree) ELSE StepRet(t, tree)

\* the chains of at most MaxConcOperands operands
MaxConcOperands == 2

ConcInputs == {in \in ChainInputs : Len(in.operands) <= MaxConcOperands}

InitConc ==
    /\ input \in ConcInputs
    /\ expr = TextOf(input)
    /\ op = "Parse"
    /\ obj = Nil
    /\ parsed = Parse(expr)
    /\ ret = NoResult
    /\ trace = <<>>
    /\ threads = [g \in Goroutines |-> Idle]
    /\ shared = parsed.e

\* go func() { value, err := EvalParsed(shared, o) }()
Go(g) ==
    \E o \in Objects :
        /\ threads[g].mode = "idle"
        /\ threads' = [threads EXCEPT ![g] = [Idle EXCEPT !.mode = "call", !.obj = o]]
        /\ UNCHANGED <<op, expr, input, obj, parsed, ret, trace, shared>>

\* goroutine g evaluates one node, or returns from one
Step(g) ==
    /\ threads[g].mode \in {"call", "ret"}
    /\ threads' = [threads EXCEPT ![g] = StepThread(threads[g], shared).thread]
    /\ shared' = StepThread(threads[g], shared).tree
    /\ UNCHANGED <<op, expr, input, obj, parsed, ret, trace>>

NextConc == \E g \in Goroutines : Go(g) \/ Step(g)

SpecConc == InitConc /\ [][NextConc]_vars

-----------------------------------------------------------------------------
(* What the claims are stated with. *)

\* an evaluation has returned
Evaluated == op \in {"Eval", "EvalParsed"}
\* the parse of the text: what EvalParsed was given, what Eval parsed itself
Tree == IF op = "EvalParsed" THEN parsed ELSE Parse(expr)
\* an evaluation of a text that parses, to t, has returned
HasTree(t) == Evaluated /\ Len(expr) > 0 /\ t.err = Nil
EvaluatedTree == HasTree(Tree)

Returns(value) == ret = [value |-> value, err |-> Nil]
Fails == ret.err # Nil /\ ret.value = Nil

\* the node at pos was entered / nothing at or after pos was evaluated
Entered(ev, pos) == \E i \in DOMAIN trace : trace[i].ev = ev /\ trace[i].Pos = pos
NothingFrom(pos) == \A i \in DOMAIN trace : trace[i].Pos < pos
EntryIndex(ev, pos) == CHOOSE i \in DOMAIN trace : trace[i].ev = ev /\ trace[i].Pos = pos
NoGetByName == \A i \in DOMAIN trace : trace[i].ev # "GetByName"

\* a child of a list evaluated alone, with the object of the call
Child(node) ==
    IF node.T = "OrCondition" THEN OrConditionEval(node, Context(obj), <<>>)
    ELSE ConditionOperandEval(node, Context(obj), <<>>)
IsBoolean(r, b) == r.err = Nil /\ r.value = Boolean(b)
\* the event that marks the entry of a child of a list
EntryOf(node) == node.T

\* the positions of the Ident tokens of the text
IdentPositions == {t.Pos : t \in {u \in Range(Lex(expr).toks) : u.Type = "Ident"}}
\* the name of the identifier at pos
NameAt(pos) == (CHOOSE u \in Range(Lex(expr).toks) : u.Pos = pos).Value
\* an Identifier term was evaluated
IdentifierEvaluated ==
    LET ids == IdentPositions
    IN  \E i \in DOMAIN trace : trace[i].ev = "Term" /\ trace[i].Pos \in ids

-----------------------------------------------------------------------------
(* C1 *)

\* a list of exactly two children whose first child evaluates to the Boolean
\* stop: the call returns stop and nothing of the second child is evaluated
ShortCircuits(children, stop) ==
    (Len(children) = 2 /\ IsBoolean(Child(children[1]), stop))
        => Returns(Bool(stop)) /\ NothingFrom(children[2].Pos)

\* C1: when the OR list of the text has exactly two children and the first
\* evaluates to boolean true, the result is true and the second child is
\* never evaluated (no node of it, no GetByName call, no error); when the AND
\* list has exactly two children and the first evaluates to boolean false,
\* the result is false and the second child is never evaluated.
C1_TwoOperandShortCircuit ==
    LET t == Tree
    IN  HasTree(t) =>
            /\ ShortCircuits(t.e.Or, TRUE)
            /\ Len(t.e.Or) = 1 => ShortCircuits(t.e.Or[1].And, FALSE)

\* "true OR h" with no object, and "false AND h" with the object that has no
\* boolean h, have returned
C1_Witness ==
    /\ EvaluatedTree
    /\ \/ /\ Len(Tree.e.Or) = 2 /\ obj = Nil /\ Returns(Bool(TRUE))
          /\ Tree.e.Or[2].And[1].Term.Identifier # Nil
       \/ /\ Len(Tree.e.Or) = 1 /\ Len(Tree.e.Or[1].And) = 2 /\ obj = Nil
          /\ Returns(Bool(FALSE))
          /\ Tree.e.Or[1].And[2].Term.Identifier # Nil

-----------------------------------------------------------------------------
(* C2 *)

OR == <<" ","O","R"," ">>
AND == <<" ","A","N","D"," ">>

\* the operands of the chains that are boolean with object o, and their
\* truth: true, false, and (married OR 1>2), which is what married is
BooleanOperand(k, o) == k \in {1, 2} \/ (k = 4 /\ o # Nil)
Truth(k, o) ==
    IF k = 1 THEN TRUE
    ELSE IF k = 2 THEN FALSE
    ELSE castToInternal(GetByName(o, married).value).b

\* the disjunction of the conjunctions of the chain's operands: some
\* maximal run i..j of operands joined by AND holds only true operands
Meaning(in, o) ==
    LET n == Len(in.operands)
    IN  \E i, j \in 1..n :
            /\ i <= j
            /\ i = 1 \/ in.conns[i - 1] = OR
            /\ j = n \/ in.conns[j] = OR
            /\ \A k \in i..(j - 1) : in.conns[k] = AND
            /\ \A k \in i..j : Truth(in.operands[k], o)

BooleanChain ==
    /\ input.family = "chain"
    /\ \A k \in DOMAIN input.operands : BooleanOperand(input.operands[k], obj)

\* C2: a chain of boolean operands evaluates, with no error, to the
\* disjunction over its OR-separated groups of the conjunction of each
\* group's operands: AND binds tighter than OR, for any number of operands,
\* and a parenthesized sub-expression counts as one operand.
C2_Precedence ==
    (Evaluated /\ BooleanChain) => Returns(Bool(Meaning(input, obj)))

\* "a OR b AND c" and "a AND b OR c" where grouping the other way would give
\* the other result: true OR true AND false, false AND true OR true
C2_Witness ==
    /\ Evaluated /\ BooleanChain /\ Len(input.operands) = 3
    /\ \/ /\ input.conns = <<OR, AND>> /\ ~Truth(input.operands[3], obj)
          /\ Returns(Bool(TRUE))
       \/ /\ input.conns = <<AND, OR>> /\ ~Truth(input.operands[1], obj)
          /\ input.operands[3] = 4 /\ Returns(Bool(TRUE))

-----------------------------------------------------------------------------
(* C3 *)

\* the two operands of the comparison that t is the tree of, evaluated alone
LhsOf(t) == TermEval(t.e.Or[1].And[1].Term, Context(obj), <<>>)
RhsOf(t) == TermEval(t.e.Or[1].And[1].Compare.Term, Context(obj), <<>>)
Lhs == LhsOf(Tree)
Rhs == RhsOf(Tree)

Comparable(l, r, operator) ==
    /\ l.T = r.T
    /\ l.T \in {"float64", "string", "Boolean"}
    /\ l.T = "Boolean" => operator \in {<<"=","=">>, <<"!","=">>}

\* C3: when both operands of a comparison evaluate without error, the
\* result is a boolean if the two values are both numbers, both strings, or
\* both booleans under == or !=; in every other case (mixed types, an
\* ordering of booleans, a nil or unknown value) the comparison fails with an
\* error at the position of the Compare.
C3_CompareTyping ==
    LET t == Tree
        l == LhsOf(t)
        r == RhsOf(t)
    IN  (input.family = "compare" /\ HasTree(t) /\ l.err = Nil /\ r.err = Nil)
            => IF Comparable(l.value, r.value, input.operator)
               THEN ret.err = Nil /\ ret.value.T = "bool"
               ELSE /\ Fails
                    /\ ret.err.T = "*lexer.Error"
                    /\ ret.err.Pos = t.e.Or[1].And[1].Compare.Pos

\* a string compared with a number, in either order, and two booleans
\* ordered, have failed; two strings have been compared
C3_Witness ==
    /\ EvaluatedTree /\ input.family = "compare" /\ Lhs.err = Nil /\ Rhs.err = Nil
    /\ \/ Lhs.value.T = "string" /\ Rhs.value.T = "float64" /\ Fails
       \/ Lhs.value.T = "float64" /\ Rhs.value.T = "string" /\ Fails
       \/ Lhs.value.T = "Boolean" /\ Rhs.value.T = "Boolean" /\ Fails

-----------------------------------------------------------------------------
(* C4 *)

\* C4: Parse(text) followed by EvalParsed(ast, context) gives the outcome of
\* Eval(text, context), the same value or an error in both cases, for every
\* text, the empty one included: what EvalParsed returned is what Eval
\* returns, and where Parse failed Eval fails.
C4_RoundTrip ==
    /\ op = "EvalParsed"
           => ret = [value |-> Eval(expr, obj).value, err |-> Eval(expr, obj).err]
    /\ (op = "Parse" /\ parsed.err # Nil)
           => \A o \in Objects : Eval(expr, o).err # Nil

-----------------------------------------------------------------------------
(* C5 *)

\* C5 as claimed: a call with no object on an expression in which an
\* identifier is used returns an error and no value, and GetByName is never
\* called.
C5_NilObjectAlwaysFails ==
    (EvaluatedTree /\ obj = Nil /\ IdentPositions # {})
        => Fails /\ NoGetByName

\* C5 as amended: a call with no object that evaluates an Identifier term
\* returns an error and no value, and GetByName is never called; an
\* identifier in a part of the expression that short-circuiting skips is not
\* evaluated.
C5_NilObjectFailsWhenReached ==
    (obj = Nil /\ EvaluatedTree)
        => NoGetByName /\ (IdentifierEvaluated => Fails)

\* an identifier was evaluated with no object, after other operands
C5_Witness ==
    /\ EvaluatedTree /\ obj = Nil /\ IdentifierEvaluated /\ Fails
    /\ Len(trace) > 3

-----------------------------------------------------------------------------
(* C6 *)

\* the node evaluated last: the one whose error ended the evaluation
Last == trace[Len(trace)]
\* the ContextError of the Identifier term at pos, as Term.Eval raises it
ContextErrorAt(pos) ==
    IdentifierEval(Term(pos, Nil, NewString(NameAt(pos), pos), Nil), Context(Nil), <<>>).err
\* the IdentifierError of the GetByName call at pos, as Term.Eval raises it
IdentifierErrorAt(pos) ==
    Errorf(pos, ErrorString(GetByName(obj, NameAt(pos)).err))

\* C6: an error raised in a descendant node reaches the caller of Eval or
\* EvalParsed as the same error, with the message and the position it was
\* raised with, in whichever child of an OR or AND list the descendant is:
\* stated for the errors of Identifier terms (no object; GetByName failed).
C6_ErrorsUnchanged ==
    (EvaluatedTree /\ ret.err # Nil /\ trace # <<>>)
        => /\ (obj = Nil /\ Last.ev = "Term" /\ Last.Pos \in IdentPositions)
                  => ret.err = ContextErrorAt(Last.Pos)
           /\ (Last.ev = "GetByName" /\ GetByName(obj, Last.name).err # Nil)
                  => ret.err = IdentifierErrorAt(Last.Pos)

-----------------------------------------------------------------------------
(* C7 *)

Keywords == {<<"A","N","D">>, <<"O","R">>, <<"t","r","u","e">>, <<"f","a","l","s","e">>}

\* the text is one name: a letter or underscore, then letters, digits and
\* underscores, and no keyword in any letter case
IsName(text) ==
    /\ text # <<>>
    /\ IsIdentStart(text[1])
    /\ \A i \in DOMAIN text : IsIdentPart(text[i])
    /\ \A w \in Keywords : ~EqualFold(text, w)

\* C7: a name is one Ident token covering the whole name, and the expression
\* that is just the name is resolved by one GetByName call with that name.
C7_NameIsOneIdentifier ==
    (IsName(expr) /\ op \in {"Parse", "Eval"}) =>
        /\ Lex(expr).ok
        /\ Lex(expr).toks = <<[Type |-> "Ident", Value |-> expr, Pos |-> 1]>>
        /\ op = "Parse" => parsed.err = Nil
        /\ (op = "Eval" /\ obj # Nil)
               => \E i \in DOMAIN trace :
                      /\ trace[i] = Event("GetByName", 1, expr)
                      /\ \A j \in DOMAIN trace : trace[j].ev = "GetByName" => j = i

-----------------------------------------------------------------------------
(* C9 *)

\* whether the pieces of msg hold the characters of name, one after another
Carries(msg, name) ==
    \E i \in DOMAIN msg :
        /\ i + Len(name) - 1 <= Len(msg)
        /\ SubSeq(msg, i, i + Len(name) - 1) = name

\* C9: the error of an Identifier term evaluated with no object carries the
\* identifier's name, as written in the expression, and the position of the
\* term.
C9_ContextErrorNamesIdentifier ==
    (EvaluatedTree /\ obj = Nil /\ trace # <<>> /\ Last.ev = "Term"
        /\ Last.Pos \in IdentPositions /\ Len(Tree.e.Or) = 1 /\ Len(Tree.e.Or[1].And) = 1)
        => /\ ret.err # Nil
           /\ ret.err.Pos = Last.Pos
           /\ Carries(ret.err.Msg, NameAt(Last.Pos))

-----------------------------------------------------------------------------
(* C10 *)

\* the first k children evaluate, each alone, to not-stop Booleans and then
\* to stop: the running value of the list is stop from child k on
StopsAt(children, k, stop) ==
    /\ IsBoolean(Child(children[k]), stop)
    /\ \A j \in 1..(k - 1) : IsBoolean(Child(children[j]), ~stop)

\* a list of three or more children: they are entered from left to right,
\* and once the running value is stop, the next child is still evaluated and
\* checked, none after it is, and the call returns stop or, if that next
\* child fails or is no Boolean, fails
OneAhead(children, stop) ==
    LET n == Len(children)
        entered(i) == Entered(EntryOf(children[i]), children[i].Pos)
        index(i) == EntryIndex(EntryOf(children[i]), children[i].Pos)
    IN  n >= 3 =>
          /\ \A i, j \in 1..n :
                 (i < j /\ entered(j)) => (entered(i) /\ index(i) < index(j))
          /\ \A k \in 1..(n - 1) :
                 StopsAt(children, k, stop) =>
                    /\ entered(k + 1)
                    /\ k + 2 <= n => NothingFrom(children[k + 2].Pos)
                    /\ IF Child(children[k + 1]).err = Nil
                          /\ Child(children[k + 1]).value.T = "Boolean"
                       THEN Returns(Bool(stop))
                       ELSE Fails

\* C10: in an OR list of three or more children the children are evaluated
\* left to right; once the running value is true exactly one further child
\* is evaluated and type-checked (an error or a non-boolean value of it
\* fails the list), no later child is evaluated and the result is true.  The
\* AND list does the same once the running value is false, with result false.
C10_OneOperandAhead ==
    LET t == Tree
    IN  HasTree(t) =>
            /\ OneAhead(t.e.Or, TRUE)
            /\ Len(t.e.Or) = 1 => OneAhead(t.e.Or[1].And, FALSE)

\* "true OR h OR ..." with no object has failed on h, the third child not
\* evaluated
C10_Witness ==
    /\ EvaluatedTree /\ obj = Nil /\ Len(Tree.e.Or) = 3
    /\ StopsAt(Tree.e.Or, 1, TRUE)
    /\ Tree.e.Or[2].And[1].Term.Identifier # Nil
    /\ Fails
    /\ NothingFrom(Tree.e.Or[3].Pos)

-----------------------------------------------------------------------------
(* C8 *)

\* C8: evaluation never changes the parsed tree, and goroutines evaluating
\* the same tree at once, each with its own object, in any interleaving,
\* each get what EvalParsed gives alone on the tree as parsed with that
\* object: the same value or error, after the same nodes and GetByName calls.
C8_TreeNotMutated ==
    /\ shared = parsed.e
    /\ \A g \in Goroutines :
           threads[g].mode = "done"
               => [value |-> threads[g].r.value, err |-> threads[g].r.err,
                   log |-> threads[g].log]
                      = EvalParsed(parsed.e, threads[g].obj)

\* one goroutine has returned while the other, with another object and
\* another result to come, is in the middle of its evaluation
C8_Witness ==
    /\ threads["g1"].mode = "done"
    /\ threads["g2"].mode \in {"call", "ret"}
    /\ Len(threads["g2"].stack) >= 2
    /\ threads["g1"].obj # threads["g2"].obj
    /\ threads["g1"].r # [value |-> EvalParsed(parsed.e, threads["g2"].obj).value,
                          err |-> EvalParsed(parsed.e, threads["g2"].obj).err]

=============================================================================
